---- MODULE Spec2Model ----
(***************************************************************************)
(* Target resolution and runtime module composition of src/src/Target.cpp: *)
(*   get_host_target               (lines  51-100)                         *)
(*   get_target_from_environment   (lines 102-215)                         *)
(*   get_initial_module_for_target (lines 281-364)                         *)
(* Strings are sequences of one-character strings, so that the splitter    *)
(* of lines 132-140 works on characters as the code does.  A feature mask  *)
(* is the set of the flags that are set in it.  The assert() calls are     *)
(* modelled as compiled in: a failed assert ends the process.              *)
(***************************************************************************)
EXTENDS Integers, Sequences, FiniteSets, TLC

VARIABLES
    pc,        \* position of the process: which function runs next, or how it ended
    build,     \* the preprocessor view of the build: defined macros, sizeof(size_t)
    cpu,       \* what the cpuid instruction returns for leaf 1 and leaf 7
    env,       \* getenv("HL_TARGET"): NULL or a string
    t,         \* the Target the running function holds or returned
    tokens,    \* vector<string> tokens of get_target_from_environment
    diag,      \* what was written to std::cerr / the failed assertion
    modules,   \* vector<llvm::Module *> modules of get_initial_module_for_target
    i,         \* loop index of the link loop
    linked,    \* indexes of modules[] whose payload modules[0] now holds
    destroyed, \* indexes of modules[] consumed by Linker::DestroySource
    attempts,  \* indexes handed to LinkModules, in call order
    ret        \* the llvm::Module* returned to the caller: an index of modules[], or NoModule

vars == <<pc, build, cpu, env, t, tokens, diag, modules, i, linked, destroyed,
          attempts, ret>>

\* ------------------------------------------------------------- bounds
\* The longest override string, counted in hyphen-separated segments.
MaxTokens == 3

\* ------------------------------------------------------------- values
\* char *buf = getenv(...): a null pointer, or a pointer to a string.
NULL == [isnull |-> TRUE, str |-> <<>>]
CStr(s) == [isnull |-> FALSE, str |-> s]
\* No Target: the function has not returned one.
NoTarget == [os |-> "none", arch |-> "none", bits |-> 0, features |-> {}]
\* No llvm::Module* was returned to the caller.
NoModule == [returned |-> FALSE, index |-> 0]
Module(k) == [returned |-> TRUE, index |-> k]
\* Nothing written to std::cerr, no assertion failed.
NoDiag == [kind |-> "none", target |-> <<>>]
Diag(kind, target) == [kind |-> kind, target |-> target]
npos == -1

\* Target::OS, Target::Arch and Target::Features as Target.cpp uses them.
OSValues == {"OSUnknown", "Linux", "Windows", "OSX", "Android", "IOS", "NaCl"}
ArchValues == {"X86", "ARM"}
FeatureValues == {"SSE41", "AVX", "AVX2", "CUDA", "OpenCL", "GPUDebug"}

Target(os, arch, bits, features) ==
    [os |-> os, arch |-> arch, bits |-> bits, features |-> features]

\* ------------------------------------------------------------- cpuid
\* (1 << n)
Shl1(n) == 2 ^ n

\* x & (1 << n), converted to bool
TestBit(x, n) == (x \div Shl1(n)) % 2 = 1

\* cpuid(info, infoType, extra): the four registers the processor returns.
cpuid(infoType, extra) == cpu[infoType]

\* The os of get_host_target: three #ifdef blocks, each overwriting the last.
host_os ==
    LET os0 == "OSUnknown"
        os1 == IF "__linux__" \in build.macros THEN "Linux" ELSE os0
        os2 == IF "_MSC_VER" \in build.macros THEN "Windows" ELSE os1
        os3 == IF "__APPLE__" \in build.macros THEN "OSX" ELSE os2
    IN  os3

\* bool have_avx2 = info[2] & (1 << 5): the code reads info, the result of
\* the first query, although it has just filled info2.
have_avx2_bit(info, info2) == TestBit(info[2], 5)

\* The mask get_host_target builds on x86 from the two queries.
host_features(use_64_bits, info, info2) ==
    LET have_sse41 == TestBit(info[2], 19)
        have_avx == TestBit(info[2], 28)
        have_f16 == TestBit(info[2], 29)
        have_rdrand == TestBit(info[2], 30)
        f0 == {}
        f1 == IF have_sse41 THEN f0 \cup {"SSE41"} ELSE f0
        f2 == IF have_avx THEN f1 \cup {"AVX"} ELSE f1
    IN  IF use_64_bits /\ have_avx /\ have_f16 /\ have_rdrand
        THEN IF have_avx2_bit(info, info2) THEN f2 \cup {"AVX2"} ELSE f2
        ELSE f2

\* get_host_target(): a Target, or the failed SSE2 assertion.
host_target ==
    LET os == host_os
        use_64_bits == (build.sizeof_size_t = 8)
        bits == IF use_64_bits THEN 64 ELSE 32
    IN  IF "__arm__" \in build.macros
        THEN [ok |-> TRUE, t |-> Target(os, "ARM", bits, {}), diag |-> NoDiag]
        ELSE LET info == cpuid(1, 0)
                 info2 == cpuid(7, 0)
                 have_sse2 == TestBit(info[3], 26)
             IN  IF ~have_sse2
                 THEN [ok |-> FALSE, t |-> NoTarget,
                       diag |-> Diag("The x86 backend assumes at least sse2 support", <<>>)]
                 ELSE [ok |-> TRUE,
                       t |-> Target(os, "X86", bits,
                                    host_features(use_64_bits, info, info2)),
                       diag |-> NoDiag]


\* ------------------------------------------------------------- strings
\* The string literals of the token chain (lines 147-187), as characters.
tok_x86 == <<"x", "8", "6">>
tok_arm == <<"a", "r", "m">>
tok_32 == <<"3", "2">>
tok_64 == <<"6", "4">>
tok_linux == <<"l", "i", "n", "u", "x">>
tok_windows == <<"w", "i", "n", "d", "o", "w", "s">>
tok_nacl == <<"n", "a", "c", "l">>
tok_osx == <<"o", "s", "x">>
tok_android == <<"a", "n", "d", "r", "o", "i", "d">>
tok_ios == <<"i", "o", "s">>
tok_sse41 == <<"s", "s", "e", "4", "1">>
tok_avx == <<"a", "v", "x">>
tok_avx2 == <<"a", "v", "x", "2">>
tok_cuda == <<"c", "u", "d", "a">>
tok_ptx == <<"p", "t", "x">>
tok_opencl == <<"o", "p", "e", "n", "c", "l">>
tok_gpu_debug == <<"g", "p", "u", "_", "d", "e", "b", "u", "g">>

\* rest.find('-'): the 0-based index of the first '-' at or after from, or npos.
RECURSIVE find_from(_, _, _)
find_from(rest, ch, from) ==
    IF from >= Len(rest) THEN npos
    ELSE IF rest[from + 1] = ch THEN from
    ELSE find_from(rest, ch, from + 1)

find(rest, ch) == find_from(rest, ch, 0)

\* rest.substr(pos, n) and rest.substr(pos)
substr(rest, pos, n) == SubSeq(rest, pos + 1, pos + n)
substr_from(rest, pos) == SubSeq(rest, pos + 1, Len(rest))

\* The splitting loop of lines 132-140: while a '-' is found, push what is
\* before it and keep what is after it; then push the rest.
RECURSIVE split_loop(_, _)
split_loop(rest, toks) ==
    LET first_dash == find(rest, "-")
    IN  IF first_dash # npos
        THEN split_loop(substr_from(rest, first_dash + 1),
                        Append(toks, substr(rest, 0, first_dash)))
        ELSE Append(toks, rest)

\* A splitter that drops empty segments, as strtok does.
split_dropping_empty(target) ==
    SelectSeq(split_loop(target, <<>>), LAMBDA seg : Len(seg) > 0)

split(target) == split_loop(target, <<>>)

\* ------------------------------------------------------------- tokens
\* The if/else-if chain of lines 147-196 on one token: the Target after it,
\* the category flags, and whether the final else (assert(false)) was taken.
match_token(tg, tok) ==
    LET r(tg2, a, o, b) ==
            [t |-> tg2, is_arch |-> a, is_os |-> o, is_bits |-> b, known |-> TRUE]
        arch(v) == r([tg EXCEPT !.arch = v], TRUE, FALSE, FALSE)
        bits(v) == r([tg EXCEPT !.bits = v], FALSE, FALSE, TRUE)
        os(v)   == r([tg EXCEPT !.os = v], FALSE, TRUE, FALSE)
        feat(f) == r([tg EXCEPT !.features = @ \cup f], FALSE, FALSE, FALSE)
    IN  IF tok = tok_x86 THEN arch("X86")
        ELSE IF tok = tok_arm THEN arch("ARM")
        ELSE IF tok = tok_32 THEN bits(32)
        ELSE IF tok = tok_64 THEN bits(64)
        ELSE IF tok = tok_linux THEN os("Linux")
        ELSE IF tok = tok_windows THEN os("Windows")
        ELSE IF tok = tok_nacl THEN os("NaCl")
        ELSE IF tok = tok_osx THEN os("OSX")
        ELSE IF tok = tok_android THEN os("Android")
        ELSE IF tok = tok_ios THEN os("IOS")
        ELSE IF tok = tok_sse41 THEN feat({"SSE41"})
        ELSE IF tok = tok_avx THEN feat({"SSE41", "AVX"})
        ELSE IF tok = tok_avx2 THEN feat({"SSE41", "AVX", "AVX2"})
        ELSE IF tok = tok_cuda \/ tok = tok_ptx THEN feat({"CUDA"})
        ELSE IF tok = tok_opencl THEN feat({"OpenCL"})
        ELSE IF tok = tok_gpu_debug THEN feat({"GPUDebug"})
        ELSE [t |-> tg, is_arch |-> FALSE, is_os |-> FALSE, is_bits |-> FALSE,
              known |-> FALSE]

\* The assertions of lines 198-211 left out.
twice_unchecked(is_cat, specified) == FALSE

\* assert(!specified && "..."): whether the assertion of lines 198-211 for one
\* category fails.
twice(is_cat, specified) == is_cat /\ specified

\* One iteration of the loop of lines 144-212.  st holds t and the three
\* *_specified flags; the result adds the diagnostic of a failed assertion.
apply_token(st, tok, target) ==
    LET m == match_token(st.t, tok)
    IN  IF ~m.known
        THEN [st EXCEPT !.ok = FALSE,
                        !.diag = Diag("Did not understand HL_TARGET=", target)]
        ELSE IF twice(m.is_os, st.os_specified)
        THEN [st EXCEPT !.ok = FALSE,
                        !.diag = Diag("Target string specifies OS twice", target)]
        ELSE IF twice(m.is_arch, st.arch_specified)
        THEN [st EXCEPT !.ok = FALSE,
                        !.diag = Diag("Target string specifies architecture twice", target)]
        ELSE IF twice(m.is_bits, st.bits_specified)
        THEN [st EXCEPT !.ok = FALSE,
                        !.diag = Diag("Target string specifies bits twice", target)]
        ELSE [st EXCEPT !.t = m.t,
                        !.os_specified = @ \/ m.is_os,
                        !.arch_specified = @ \/ m.is_arch,
                        !.bits_specified = @ \/ m.is_bits]

\* for (size_t i = 0; i < tokens.size(); i++): stops at the first failed assertion.
RECURSIVE token_loop(_, _, _, _)
token_loop(st, toks, k, target) ==
    IF k > Len(toks) \/ ~st.ok THEN st
    ELSE token_loop(apply_token(st, toks[k], target), toks, k + 1, target)

\* Line 129 left out: the features of the host Target are kept.
reset_features_left_out(base) == base

\* t.features = 0 (line 129)
reset_features(base) == [base EXCEPT !.features = {}]

\* Lines 129-214: the override target applied to the host Target base.
resolve_from_override(target, base) ==
    token_loop([t |-> reset_features(base),
                os_specified |-> FALSE, arch_specified |-> FALSE,
                bits_specified |-> FALSE, ok |-> TRUE, diag |-> NoDiag],
               split(target), 1, target)


\* ------------------------------------------------------------- inputs
\* A register value with exactly the bits of bs set.
RECURSIVE reg(_)
reg(bs) == IF bs = {} THEN 0
           ELSE LET b == CHOOSE x \in bs : TRUE IN Shl1(b) + reg(bs \ {b})

\* Register values over the bits get_host_target reads: 5, 19, 28, 29 and 30
\* of register C, 26 of register D.
LeafRegs(cbits, dbits) ==
    {[r \in 0..3 |-> IF r = 2 THEN reg(c) ELSE IF r = 3 THEN reg(d) ELSE 0] :
        c \in SUBSET cbits, d \in SUBSET dbits}

AllCpus ==
    {[leaf \in {1, 7} |-> IF leaf = 1 THEN a ELSE b] :
        a \in LeafRegs({5, 19, 28, 29, 30}, {26}), b \in LeafRegs({5}, {})}

Macros == {"__linux__", "_MSC_VER", "__APPLE__", "__arm__"}
AllBuilds == [macros : SUBSET Macros, sizeof_size_t : {4, 8}]

\* The builds and processors the override parser is run on: a 64-bit Linux
\* x86 build on a processor with every probed bit set, and a 32-bit ARM build
\* (where the cpuid values are not read).
ResolveBuilds == {[macros |-> {"__linux__"}, sizeof_size_t |-> 8],
                  [macros |-> {"__arm__"}, sizeof_size_t |-> 4]}
ResolveCpu ==
    [leaf \in {1, 7} |->
        [r \in 0..3 |-> IF r = 2 THEN (IF leaf = 1 THEN reg({5, 19, 28, 29, 30})
                                                   ELSE reg({5}))
                        ELSE IF r = 3 /\ leaf = 1 THEN reg({26}) ELSE 0]]

\* Segments an override string is made of: every token of the table, the
\* empty segment, and one the table does not hold.
Words == {tok_x86, tok_arm, tok_32, tok_64, tok_linux, tok_windows, tok_nacl,
          tok_osx, tok_android, tok_ios, tok_sse41, tok_avx, tok_avx2, tok_cuda,
          tok_ptx, tok_opencl, tok_gpu_debug,
          <<>>, <<"b", "o", "g", "u", "s">>}

\* The segments of ws joined by '-'.
RECURSIVE join(_)
join(ws) == IF Len(ws) = 0 THEN <<>>
            ELSE IF Len(ws) = 1 THEN ws[1]
            ELSE ws[1] \o <<"-">> \o join(Tail(ws))


\* ------------------------------------------------------------- host spec
InitCommon ==
    /\ tokens = <<>>
    /\ diag = NoDiag
    /\ modules = <<>>
    /\ i = 0
    /\ linked = {}
    /\ destroyed = {}
    /\ attempts = <<>>
    /\ ret = NoModule

InitHost ==
    /\ pc = "get_host_target"
    /\ build \in AllBuilds
    /\ cpu \in AllCpus
    /\ env = NULL
    /\ t = NoTarget
    /\ InitCommon

\* Target get_host_target()
get_host_target ==
    /\ pc = "get_host_target"
    /\ LET h == host_target
       IN  /\ pc' = IF h.ok THEN "returned" ELSE "aborted"
           /\ t' = h.t
           /\ diag' = h.diag
    /\ UNCHANGED <<build, cpu, env, tokens, modules, i, linked, destroyed,
                   attempts, ret>>

NextHost == get_host_target

SpecHost == InitHost /\ [][NextHost]_vars

\* ------------------------------------------------------------- override spec
InitResolve ==
    /\ pc = "get_target_from_environment"
    /\ build \in ResolveBuilds
    /\ cpu = ResolveCpu
    /\ \/ env = NULL
       \/ \E n \in 1..MaxTokens : \E ws \in [1..n -> Words] : env = CStr(join(ws))
    /\ t = NoTarget
    /\ InitCommon

\* Target get_target_from_environment(): the host Target when HL_TARGET is not
\* set, the override applied to it otherwise.
get_target_from_environment ==
    /\ pc = "get_target_from_environment"
    /\ LET h == host_target
       IN  IF ~h.ok
           THEN /\ pc' = "aborted"
                /\ t' = NoTarget
                /\ diag' = h.diag
                /\ tokens' = tokens
           ELSE IF env = NULL
           THEN /\ pc' = "returned"
                /\ t' = h.t
                /\ UNCHANGED <<diag, tokens>>
           ELSE LET st == resolve_from_override(env.str, h.t)
                IN  /\ pc' = IF st.ok THEN "returned" ELSE "aborted"
                    /\ t' = IF st.ok THEN st.t ELSE NoTarget
                    /\ diag' = st.diag
                    /\ tokens' = split(env.str)
    /\ UNCHANGED <<build, cpu, env, modules, i, linked, destroyed, attempts, ret>>

NextResolve == get_target_from_environment

SpecResolve == InitResolve /\ [][NextResolve]_vars


\* ------------------------------------------------------------- initmods
\* DECLARE_CPP_INITMOD(mod): get_initmod_<mod>(c, bits_64) returns the _64 or
\* the _32 variant.  DECLARE_LL_INITMOD(mod): get_initmod_<mod>_ll(c).
cpp_initmod(mod, bits_64) ==
    [mod |-> mod, variant |-> IF bits_64 THEN "_64" ELSE "_32"]
ll_initmod(mod) == [mod |-> mod, variant |-> "_ll"]

\* The modules lines 249-278 declare.
DeclaredCpp == {"android_clock", "android_host_cpu_count", "android_io", "ios_io",
                "cuda", "cuda_debug", "fake_thread_pool", "gcd_thread_pool",
                "linux_clock", "linux_host_cpu_count", "nogpu", "opencl",
                "opencl_debug", "osx_host_cpu_count", "osx_io", "posix_allocator",
                "posix_clock", "posix_error_handler", "posix_io", "posix_math",
                "posix_thread_pool", "tracing", "write_debug_image"}
DeclaredLl == {"arm", "posix_math", "ptx_dev", "x86_avx", "x86", "x86_sse41"}
Declared == {cpp_initmod(m, b) : m \in DeclaredCpp, b \in BOOLEAN}
            \cup {ll_initmod(m) : m \in DeclaredLl}

\* Lines 288-316: the OS-dependent modules, one branch per OS.
linux_modules(bits_64) ==
    <<cpp_initmod("linux_clock", bits_64),
      cpp_initmod("posix_io", bits_64),
      cpp_initmod("linux_host_cpu_count", bits_64),
      cpp_initmod("posix_thread_pool", bits_64)>>
osx_modules(bits_64) ==
    <<cpp_initmod("posix_clock", bits_64),
      cpp_initmod("osx_io", bits_64),
      cpp_initmod("gcd_thread_pool", bits_64)>>
android_modules(bits_64) ==
    <<cpp_initmod("android_clock", bits_64),
      cpp_initmod("android_io", bits_64),
      cpp_initmod("android_host_cpu_count", bits_64),
      cpp_initmod("posix_thread_pool", bits_64)>>
windows_modules(bits_64) ==
    <<cpp_initmod("posix_clock", bits_64),
      cpp_initmod("posix_io", bits_64),
      cpp_initmod("fake_thread_pool", bits_64)>>
ios_modules(bits_64) ==
    <<cpp_initmod("posix_clock", bits_64),
      cpp_initmod("ios_io", bits_64),
      cpp_initmod("gcd_thread_pool", bits_64)>>
\* The branch of line 311 with the list of the Linux branch.
nacl_modules_as_linux(bits_64) == linux_modules(bits_64)
nacl_modules(bits_64) ==
    <<cpp_initmod("posix_clock", bits_64),
      cpp_initmod("posix_io", bits_64),
      cpp_initmod("linux_host_cpu_count", bits_64),
      cpp_initmod("posix_thread_pool", bits_64)>>

os_modules(os, bits_64) ==
    IF os = "Linux" THEN linux_modules(bits_64)
    ELSE IF os = "OSX" THEN osx_modules(bits_64)
    ELSE IF os = "Android" THEN android_modules(bits_64)
    ELSE IF os = "Windows" THEN windows_modules(bits_64)
    ELSE IF os = "IOS" THEN ios_modules(bits_64)
    ELSE IF os = "NaCl" THEN nacl_modules(bits_64)
    ELSE <<>>

\* Line 320 pushing get_initmod_posix_math(c, bits_64) a second time.
always_modules_math_twice(bits_64) ==
    <<cpp_initmod("posix_math", bits_64),
      cpp_initmod("posix_math", bits_64),
      cpp_initmod("tracing", bits_64),
      cpp_initmod("write_debug_image", bits_64),
      cpp_initmod("posix_allocator", bits_64),
      cpp_initmod("posix_error_handler", bits_64)>>

\* Lines 318-324: the modules that are always used.
always_modules(bits_64) ==
    <<cpp_initmod("posix_math", bits_64),
      ll_initmod("posix_math"),
      cpp_initmod("tracing", bits_64),
      cpp_initmod("write_debug_image", bits_64),
      cpp_initmod("posix_allocator", bits_64),
      cpp_initmod("posix_error_handler", bits_64)>>

\* Lines 326-335: the optional architecture and SIMD modules.
optional_modules(tg) ==
    (IF tg.arch = "X86" THEN <<ll_initmod("x86")>> ELSE <<>>)
    \o (IF "SSE41" \in tg.features THEN <<ll_initmod("x86_sse41")>> ELSE <<>>)
    \o (IF "AVX" \in tg.features THEN <<ll_initmod("x86_avx")>> ELSE <<>>)

\* Lines 336-350 with the OpenCL test before the CUDA test.
gpu_modules_opencl_first(tg, bits_64) ==
    IF "OpenCL" \in tg.features THEN
        IF "GPUDebug" \in tg.features
        THEN <<cpp_initmod("opencl_debug", bits_64)>>
        ELSE <<cpp_initmod("opencl", bits_64)>>
    ELSE IF "CUDA" \in tg.features THEN
        IF "GPUDebug" \in tg.features
        THEN <<cpp_initmod("cuda_debug", bits_64)>>
        ELSE <<cpp_initmod("cuda", bits_64)>>
    ELSE <<cpp_initmod("nogpu", bits_64)>>

\* Lines 336-350: the accelerator module.
gpu_modules(tg, bits_64) ==
    IF "CUDA" \in tg.features THEN
        IF "GPUDebug" \in tg.features
        THEN <<cpp_initmod("cuda_debug", bits_64)>>
        ELSE <<cpp_initmod("cuda", bits_64)>>
    ELSE IF "OpenCL" \in tg.features THEN
        IF "GPUDebug" \in tg.features
        THEN <<cpp_initmod("opencl_debug", bits_64)>>
        ELSE <<cpp_initmod("opencl", bits_64)>>
    ELSE <<cpp_initmod("nogpu", bits_64)>>

\* Lines 284-350: the vector modules after the last push_back.
selected_modules(tg) ==
    LET bits_64 == (tg.bits = 64)
    IN  os_modules(tg.os, bits_64) \o always_modules(bits_64)
        \o optional_modules(tg) \o gpu_modules(tg, bits_64)

\* The link loop going on after a failed LinkModules call.
after_link_ignoring_failure(failed) == "link"

\* Where the link loop goes after one LinkModules call: assert(false) on failure.
after_link(failed) == IF failed THEN "aborted" ELSE "link"

\* ------------------------------------------------------------- composer spec
\* Every Target value, the bit widths of line 283 and one it rejects.
ComposeTargets ==
    {Target(os, arch, bits, features) :
        os \in OSValues, arch \in ArchValues, bits \in {16, 32, 64},
        features \in SUBSET FeatureValues}

InitCompose ==
    /\ pc = "get_initial_module_for_target"
    /\ build = [macros |-> {}, sizeof_size_t |-> 8]
    /\ cpu = ResolveCpu
    /\ env = NULL
    /\ t \in ComposeTargets
    /\ InitCommon

\* Lines 283-350 of get_initial_module_for_target: the bit-width assertion and
\* the selection of the modules.
select_modules ==
    /\ pc = "get_initial_module_for_target"
    /\ IF ~(t.bits = 32 \/ t.bits = 64)
       THEN /\ pc' = "aborted"
            /\ diag' = Diag("t.bits == 32 || t.bits == 64", <<>>)
            /\ UNCHANGED <<modules, i, linked>>
       ELSE /\ pc' = "link"
            /\ modules' = selected_modules(t)
            /\ i' = 1
            /\ linked' = {0}
            /\ diag' = diag
    /\ UNCHANGED <<build, cpu, env, t, tokens, destroyed, attempts, ret>>

\* One iteration of the loop of lines 353-361: LinkModules(modules[0],
\* modules[i], DestroySource), which fails or succeeds.
link_step ==
    /\ pc = "link"
    /\ i < Len(modules)
    /\ \E failed \in BOOLEAN :
        /\ attempts' = Append(attempts, i)
        /\ pc' = after_link(failed)
        /\ IF failed
           THEN /\ diag' = Diag("Failure linking initial modules", <<>>)
                /\ UNCHANGED <<i, linked, destroyed>>
           ELSE /\ linked' = linked \cup {i}
                /\ destroyed' = destroyed \cup {i}
                /\ i' = i + 1
                /\ diag' = diag
    /\ UNCHANGED <<build, cpu, env, t, tokens, modules, ret>>

\* Line 363: return modules[0].
return_module ==
    /\ pc = "link"
    /\ ~(i < Len(modules))
    /\ pc' = "returned"
    /\ ret' = Module(0)
    /\ UNCHANGED <<build, cpu, env, t, tokens, diag, modules, i, linked,
                   destroyed, attempts>>

NextCompose == select_modules \/ link_step \/ return_module

SpecCompose == InitCompose /\ [][NextCompose]_vars


\* ------------------------------------------------------------- the token table as stated
\* The token table of the specification: the categories and what each token
\* stands for.
ArchTokens == {tok_x86, tok_arm}
BitsTokens == {tok_32, tok_64}
OSTokens == {tok_linux, tok_windows, tok_nacl, tok_osx, tok_android, tok_ios}
FeatureTokens == {tok_sse41, tok_avx, tok_avx2, tok_cuda, tok_ptx, tok_opencl,
                  tok_gpu_debug}
TokenTable == ArchTokens \cup BitsTokens \cup OSTokens \cup FeatureTokens

ArchOf(tok) == IF tok = tok_x86 THEN "X86" ELSE "ARM"
BitsOf(tok) == IF tok = tok_32 THEN 32 ELSE 64
OSOf(tok) ==
    CASE tok = tok_linux -> "Linux"
      [] tok = tok_windows -> "Windows"
      [] tok = tok_nacl -> "NaCl"
      [] tok = tok_osx -> "OSX"
      [] tok = tok_android -> "Android"
      [] tok = tok_ios -> "IOS"
Expansion(tok) ==
    CASE tok = tok_sse41 -> {"SSE41"}
      [] tok = tok_avx -> {"SSE41", "AVX"}
      [] tok = tok_avx2 -> {"SSE41", "AVX", "AVX2"}
      [] tok \in {tok_cuda, tok_ptx} -> {"CUDA"}
      [] tok = tok_opencl -> {"OpenCL"}
      [] tok = tok_gpu_debug -> {"GPUDebug"}

Range(seq) == {seq[k] : k \in DOMAIN seq}
CountIn(toks, cat) == Cardinality({k \in DOMAIN toks : toks[k] \in cat})
TheToken(toks, cat) == toks[CHOOSE k \in DOMAIN toks : toks[k] \in cat]
Hyphens(str) == Cardinality({k \in DOMAIN str : str[k] = "-"})

AllKnown(toks) == Range(toks) \subseteq TokenTable
DupCategory(toks) ==
    \/ CountIn(toks, ArchTokens) > 1
    \/ CountIn(toks, OSTokens) > 1
    \/ CountIn(toks, BitsTokens) > 1
ValidOverride(toks) == AllKnown(toks) /\ ~DupCategory(toks)

UnionOfExpansions(toks) ==
    UNION {Expansion(w) : w \in Range(toks) \cap FeatureTokens}

ExpectedTarget(base, toks) ==
    Target(IF CountIn(toks, OSTokens) > 0 THEN OSOf(TheToken(toks, OSTokens))
                                          ELSE base.os,
           IF CountIn(toks, ArchTokens) > 0 THEN ArchOf(TheToken(toks, ArchTokens))
                                            ELSE base.arch,
           IF CountIn(toks, BitsTokens) > 0 THEN BitsOf(TheToken(toks, BitsTokens))
                                            ELSE base.bits,
           UnionOfExpansions(toks))

\* get_target_from_environment has run on a set HL_TARGET.
Parsed == pc # "get_target_from_environment" /\ ~env.isnull /\ host_target.ok
ParseDiags == {"Did not understand HL_TARGET=", "Target string specifies OS twice",
               "Target string specifies architecture twice",
               "Target string specifies bits twice"}

\* ------------------------------------------------------------- claims C1-C3
\* C1: for an override whose segments are all in the token table, with at
\* most one arch, one OS and one bits token, get_target_from_environment
\* returns a Target whose arch, os and bits are the token's value when the
\* category is present and the host Target's value when it is absent, and
\* whose features are exactly the union of the expansions of the feature
\* tokens present: no feature of the host Target is kept, and the order of
\* the tokens does not matter.
C1_OverrideResult ==
    (Parsed /\ ValidOverride(tokens)) =>
        /\ pc = "returned"
        /\ diag = NoDiag
        /\ t = ExpectedTarget(host_target.t, tokens)

\* "cuda-arm" on the 64-bit Linux x86 host whose probe found SSE4.1 and AVX:
\* arch from the token, os and bits from the host, features CUDA alone.
C1_Witness ==
    /\ pc = "returned"
    /\ tokens = <<tok_cuda, tok_arm>>
    /\ host_target.t.features # {}
    /\ t = Target("Linux", "ARM", 64, {"CUDA"})

C9_HostFeatures ==
    (pc = "returned" /\ t.arch = "X86") =>
        LET c1 == cpu[1][2]
            c7 == cpu[7][2]
        IN  /\ ("AVX2" \in t.features) <=>
                  /\ build.sizeof_size_t = 8
                  /\ TestBit(c1, 28) /\ TestBit(c1, 29) /\ TestBit(c1, 30)
                  /\ TestBit(c7, 5)
            /\ ("SSE41" \in t.features) <=> TestBit(c1, 19)
            /\ ("AVX" \in t.features) <=> TestBit(c1, 28)


\* ------------------------------------------------------------- claims C4-C8
\* The roles of the module names, as the specification names them.
AcceleratorMods == {"cuda", "cuda_debug", "opencl", "opencl_debug", "nogpu"}
ClockMods == {"linux_clock", "posix_clock", "android_clock"}
IOMods == {"posix_io", "osx_io", "android_io", "ios_io"}
CpuCountMods == {"linux_host_cpu_count", "android_host_cpu_count",
                 "osx_host_cpu_count"}
ThreadPoolMods == {"posix_thread_pool", "gcd_thread_pool", "fake_thread_pool"}
OSMods == ClockMods \cup IOMods \cup CpuCountMods \cup ThreadPoolMods
OSTable == {"Linux", "OSX", "Android", "Windows", "IOS", "NaCl"}

\* get_initial_module_for_target has selected its modules.
Selected == modules # <<>>
Having(mods) == {k \in DOMAIN modules : modules[k].mod \in mods}
HasModule(m) == m \in Range(modules)
WidthVariant == IF t.bits = 64 THEN "_64" ELSE "_32"
\* The OS bundle: the OS-role modules of the selection, in order.
Bundle == SelectSeq(modules, LAMBDA m : m.mod \in OSMods)
BundleCount(mods) == Cardinality({k \in DOMAIN Bundle : Bundle[k].mod \in mods})

ExpectedAccelerator ==
    IF "CUDA" \in t.features
    THEN (IF "GPUDebug" \in t.features THEN "cuda_debug" ELSE "cuda")
    ELSE IF "OpenCL" \in t.features
    THEN (IF "GPUDebug" \in t.features THEN "opencl_debug" ELSE "opencl")
    ELSE "nogpu"

\* C4: for a Target of 32 or 64 bits exactly one accelerator module is
\* selected: cuda (cuda_debug with GPUDebug) whenever CUDA is set, also with
\* OpenCL set; else opencl (opencl_debug with GPUDebug) when OpenCL is set;
\* else nogpu, and then GPUDebug changes nothing in the selection.
C4_OneAccelerator ==
    Selected =>
        /\ Cardinality(Having(AcceleratorMods)) = 1
        /\ modules[Len(modules)] =
              [mod |-> ExpectedAccelerator, variant |-> WidthVariant]
        /\ (t.features \cap {"CUDA", "OpenCL"} = {}) =>
              modules = selected_modules([t EXCEPT !.features = @ \ {"GPUDebug"}])

\* CUDA, OpenCL and GPUDebug all set: cuda_debug alone is selected.
C4_Witness ==
    /\ pc = "returned"
    /\ {"CUDA", "OpenCL", "GPUDebug"} \subseteq t.features
    /\ HasModule(cpp_initmod("cuda_debug", t.bits = 64))
    /\ Having({"opencl", "opencl_debug", "nogpu", "cuda"}) = {}

\* The name of a module: its base name, told apart from its _ll namesake.
ModuleName(m) == <<m.mod, m.variant = "_ll">>

\* C5: no module name is selected twice, whatever the os, arch and features;
\* every width-qualified module is of the Target's width; and for os=Linux,
\* bits=64, features={} the selection is exactly the Linux bundle, the six
\* always-included modules, x86_ll iff arch=X86, and nogpu.
C5_NoDuplicateModule ==
    Selected =>
        /\ \A j, k \in DOMAIN modules :
              ModuleName(modules[j]) = ModuleName(modules[k]) => j = k
        /\ \A k \in DOMAIN modules : modules[k].variant \in {"_ll", WidthVariant}
        /\ Range(modules) \subseteq Declared
        /\ (t.os = "Linux" /\ t.bits = 64 /\ t.features = {}) =>
              modules =
                 <<cpp_initmod("linux_clock", TRUE), cpp_initmod("posix_io", TRUE),
                   cpp_initmod("linux_host_cpu_count", TRUE),
                   cpp_initmod("posix_thread_pool", TRUE),
                   cpp_initmod("posix_math", TRUE), ll_initmod("posix_math"),
                   cpp_initmod("tracing", TRUE),
                   cpp_initmod("write_debug_image", TRUE),
                   cpp_initmod("posix_allocator", TRUE),
                   cpp_initmod("posix_error_handler", TRUE)>>
                 \o (IF t.arch = "X86" THEN <<ll_initmod("x86")>> ELSE <<>>)
                 \o <<cpp_initmod("nogpu", TRUE)>>

\* The Linux, 64-bit, X86 Target without features, composed and returned.
C5_Witness ==
    /\ pc = "returned"
    /\ t = Target("Linux", "X86", 64, {})
    /\ Len(modules) = 12
    /\ linked = 0..11

\* C6 as stated: every OS of the dispatch table selects a bundle with one
\* clock, one I/O, one host-CPU-count and one thread-pool module, bundles of
\* different OS values differ, and OSUnknown selects no OS module.
C6_BundleOfFour ==
    Selected =>
        /\ (t.os \in OSTable) =>
              /\ BundleCount(ClockMods) = 1
              /\ BundleCount(IOMods) = 1
              /\ BundleCount(CpuCountMods) = 1
              /\ BundleCount(ThreadPoolMods) = 1
              /\ \A os2 \in OSTable \ {t.os} : os_modules(os2, t.bits = 64) # Bundle
        /\ (t.os \notin OSTable) => Bundle = <<>>

\* C6 as the code has it: every OS of the dispatch table selects a bundle
\* with one clock, one I/O and one thread-pool module, and one host-CPU-count
\* module exactly when the thread pool is posix_thread_pool (Linux, Android,
\* NaCl; OSX, Windows and IOS select none); the bundle is the head of the
\* selection, bundles of different OS values differ, and OSUnknown selects no
\* OS module.
C6_BundleByThreadPool ==
    Selected =>
        /\ Bundle = SubSeq(modules, 1, Len(Bundle))
        /\ (t.os \in OSTable) =>
              /\ BundleCount(ClockMods) = 1
              /\ BundleCount(IOMods) = 1
              /\ BundleCount(ThreadPoolMods) = 1
              /\ BundleCount(CpuCountMods) =
                    (IF t.os \in {"Linux", "Android", "NaCl"} THEN 1 ELSE 0)
              /\ (BundleCount(CpuCountMods) = 1) <=>
                    HasModule(cpp_initmod("posix_thread_pool", t.bits = 64))
              /\ Len(Bundle) = 3 + BundleCount(CpuCountMods)
              /\ \A os2 \in OSTable \ {t.os} : os_modules(os2, t.bits = 64) # Bundle
        /\ (t.os \notin OSTable) => Bundle = <<>>

\* An OSX Target: clock, I/O and thread pool, no host-CPU-count module.
C6_Witness ==
    /\ Selected
    /\ t.os = "OSX"
    /\ Len(Bundle) = 3
    /\ BundleCount(CpuCountMods) = 0
    /\ HasModule(cpp_initmod("gcd_thread_pool", t.bits = 64))

\* C7: an ARM Target selects arm_ll as an X86 Target selects x86_ll, and
\* exactly one of the two is selected for any Target.
C7_ArchBaseModule ==
    Selected =>
        /\ (t.arch = "ARM") => HasModule(ll_initmod("arm"))
        /\ (t.arch = "X86") => HasModule(ll_initmod("x86"))
        /\ HasModule(ll_initmod("arm")) # HasModule(ll_initmod("x86"))

\* C8: for an ARM Target the SSE4.1, AVX and AVX2 flags are not consulted:
\* the selection is that of the same Target without them, and never holds
\* x86_sse41 or x86_avx.
C8_ArmIgnoresSimd ==
    (Selected /\ t.arch = "ARM") =>
        /\ modules = selected_modules(
                         [t EXCEPT !.features = @ \ {"SSE41", "AVX", "AVX2"}])
        /\ ~HasModule(ll_initmod("x86_sse41"))
        /\ ~HasModule(ll_initmod("x86_avx"))

\* ------------------------------------------------------------- claim C10
\* C10: the modules 1..n-1 are merged into modules[0] one at a time, in
\* selection order, each once; a unit is returned exactly when every merge
\* succeeded, and it is modules[0] holding all n payloads; after a failed
\* merge no further merge is made and nothing is returned; the selection
\* holds at least seven modules.
C10_AllOrNothing ==
    Selected =>
        LET n == Len(modules) IN
        /\ n >= 7
        /\ \A k \in DOMAIN attempts : attempts[k] = k
        /\ linked = 0..(i - 1)
        /\ destroyed = 1..(i - 1)
        /\ ret.returned <=> (pc = "returned")
        /\ (diag.kind = "Failure linking initial modules") <=> (pc = "aborted")
        /\ (pc = "link") => Len(attempts) = i - 1 /\ i <= n /\ diag = NoDiag
        /\ (pc = "returned") =>
              /\ ret = Module(0)
              /\ linked = 0..(n - 1)
              /\ Len(attempts) = n - 1
              /\ diag = NoDiag
        /\ (pc = "aborted") =>
              /\ ret = NoModule
              /\ Len(attempts) = i
              /\ i \notin linked
        /\ (pc \in {"returned", "aborted"}) => (ret.returned <=> linked = 0..(n - 1))

\* The third merge failed: two payloads merged, nothing returned.
C10_Witness ==
    /\ pc = "aborted"
    /\ attempts = <<1, 2, 3>>
    /\ linked = {0, 1, 2}
    /\ ret = NoModule

====
